---- MODULE Spec2Model ----
(***************************************************************************)
(* The group-data store of the dashboard: the React hook useGroupData      *)
(* (src/src/hooks/useGroupData.ts, second definition, lines 276-527), the  *)
(* remote tables it reads and writes, the two localStorage slots it uses   *)
(* as a cache, and the caller of updateTask in the tasks card.             *)
(*                                                                         *)
(* One action is one synchronous run of JavaScript: an event handler, an   *)
(* effect pass after a render, or the continuation of an async function    *)
(* from one await to the next.                                             *)
(***************************************************************************)
EXTENDS Integers, Sequences, FiniteSets, Bags, TLC

(***************************************************************************)
(* Bounds of the model.                                                    *)
(***************************************************************************)
MaxFetches == 2      \* refetch() invocations that reach the remote
MaxUpdates == 1      \* updateTask() invocations
MaxTicks == 1        \* clock advances
MaxOverlap == 2      \* updateTask() invocations of the loaded store

(***************************************************************************)
(* Program constants.                                                      *)
(***************************************************************************)
REFRESH_INTERVAL == 5 * 60 * 1000

\* StudyMode: work session 60 minutes, break session 5 minutes, in seconds
WORK_TIME == 60 * 60

BREAK_TIME == 5 * 60

\* groupId: number | null; `!groupId` holds for null (and for 0)
NoGroup == 0

(***************************************************************************)
(* Inputs.                                                                 *)
(***************************************************************************)
\* the clock advances by 4 min 59 s or by 5 min
TickSteps == {REFRESH_INTERVAL - 1000, REFRESH_INTERVAL}

(***************************************************************************)
(* The remote tables.  Rows are fixed except Task.completed, the one       *)
(* column the dashboard writes.                                            *)
(***************************************************************************)
GroupIds == {1, 2}

Group(g) == [id |-> g]

\* group: null
NullGroup == [id |-> NoGroup]

\* in name order
UserTable ==
  << [id |-> 1, group_id |-> 1],
     [id |-> 2, group_id |-> 1],
     [id |-> 3, group_id |-> 2] >>

\* creator: null
NullUser == [id |-> 0, group_id |-> NoGroup]

\* in created_at order, newest first; image 8 was made by a user who left
ImageTable ==
  << [id |-> 7, group_id |-> 1, user_id |-> 2],
     [id |-> 8, group_id |-> 2, user_id |-> 99] >>

\* both tasks are of group 1; group 2 has no task
TaskIds == {10, 11}

TaskGroup(t) == 1

\* assigned_tasks rows; user 99 is in no group, task 20 was deleted, task 11
\* has no row
AssignedTaskTable ==
  << [task_id |-> 10, user_id |-> 2],
     [task_id |-> 20, user_id |-> 3],
     [task_id |-> 10, user_id |-> 99],
     [task_id |-> 10, user_id |-> 1] >>

(***************************************************************************)
(* Sequence helper: the set of a sequence's elements.  Array.prototype.map  *)
(* is written  [i \in DOMAIN s |-> ...]  where the code maps an array.      *)
(***************************************************************************)
Range(s) == { s[i] : i \in DOMAIN s }

(***************************************************************************)
(* The remote reads of fetchGroupData, as the rows they return.            *)
(***************************************************************************)
\* .from("User").select("*").eq("group_id", groupId).order("name")
UsersOf(g) == SelectSeq(UserTable, LAMBDA u : u.group_id = g)

\* .from("Image").select("*").eq("group_id", groupId).order("created_at")
ImagesOf(g) == SelectSeq(ImageTable, LAMBDA im : im.group_id = g)

\* tasks in due_date order
TaskOrder == << 10, 11 >>

\* .from("Task").select("*").eq("group_id", groupId).order("due_date"),
\* read while the completed column holds rc
TasksOf(g, rc) ==
  LET ids == SelectSeq(TaskOrder, LAMBDA t : TaskGroup(t) = g)
  IN  [i \in DOMAIN ids |->
         [id |-> ids[i], group_id |-> TaskGroup(ids[i]), completed |-> rc[ids[i]]]]

\* .from("assigned_tasks").select("*").in("task_id", taskIds)
AssignedOf(taskIds) ==
  SelectSeq(AssignedTaskTable, LAMBDA at : at.task_id \in taskIds)

(***************************************************************************)
(* Relationship enrichment of fetchGroupData.                              *)
(***************************************************************************)
\* userMap.has(id), for the userMap built from usersData
UserMapHas(users, id) == \E i \in DOMAIN users : users[i].id = id

\* userMap.get(id): the last user set under that id
UserMapGet(users, id) ==
  users[CHOOSE i \in DOMAIN users :
          /\ users[i].id = id
          /\ \A j \in DOMAIN users : users[j].id = id => j <= i]

\* imagesWithCreator with the lookup made under the image's own id
ImagesWithCreatorById(images, users) ==
  [i \in DOMAIN images |->
     [id |-> images[i].id, group_id |-> images[i].group_id,
      user_id |-> images[i].user_id,
      creator |-> IF UserMapHas(users, images[i].id)
                  THEN UserMapGet(users, images[i].id)
                  ELSE NullUser]]

\* imagesWithCreator: creator = userMap.get(image.user_id) || null
ImagesWithCreator(images, users) ==
  [i \in DOMAIN images |->
     [id |-> images[i].id, group_id |-> images[i].group_id,
      user_id |-> images[i].user_id,
      creator |-> IF UserMapHas(users, images[i].user_id)
                  THEN UserMapGet(users, images[i].user_id)
                  ELSE NullUser]]

\* taskAssignmentsMap.get(taskId) || []: the user ids of the task's junction
\* rows, in row order
AssignedUserIds(assigned, taskId) ==
  LET rows == SelectSeq(assigned, LAMBDA at : at.task_id = taskId)
  IN  [i \in DOMAIN rows |-> rows[i].user_id]

\* assignedUserIds.map(id => userMap.get(id)) without the filter: an id with
\* no user stays in the list as an empty entry
AssigneesUnfiltered(ids, users) ==
  [i \in DOMAIN ids |->
     IF UserMapHas(users, ids[i]) THEN UserMapGet(users, ids[i]) ELSE NullUser]

\* assignedUserIds.map(id => userMap.get(id)).filter(user => user !== undefined)
Assignees(ids, users) ==
  LET found == SelectSeq(ids, LAMBDA id : UserMapHas(users, id))
  IN  [i \in DOMAIN found |-> UserMapGet(users, found[i])]

\* tasksWithAssignees with the assignees taken from the junction rows of
\* every task
TasksWithAssigneesOfAllRows(tasks, assigned, users) ==
  [i \in DOMAIN tasks |->
     [id |-> tasks[i].id, group_id |-> tasks[i].group_id,
      completed |-> tasks[i].completed,
      assignees |->
        Assignees([j \in DOMAIN assigned |-> assigned[j].user_id], users),
      assigned_task_ids |-> AssignedUserIds(assigned, tasks[i].id)]]

\* tasksWithAssignees
TasksWithAssignees(tasks, assigned, users) ==
  [i \in DOMAIN tasks |->
     [id |-> tasks[i].id, group_id |-> tasks[i].group_id,
      completed |-> tasks[i].completed,
      assignees |-> Assignees(AssignedUserIds(assigned, tasks[i].id), users),
      assigned_task_ids |-> AssignedUserIds(assigned, tasks[i].id)]]

\* useState initial value, and the value fetchGroupData returns without a group
EmptyData ==
  [group |-> NullGroup, users |-> << >>, images |-> << >>, tasks |-> << >>,
   assignedTasks |-> << >>]

\* the structure fetchGroupData returns for group g, from the task rows it
\* read and the junction rows it kept
FetchedData(g, tasks, assigned) ==
  [group |-> Group(g),
   users |-> UsersOf(g),
   images |-> ImagesWithCreator(ImagesOf(g), UsersOf(g)),
   tasks |-> TasksWithAssignees(tasks, assigned, UsersOf(g)),
   assignedTasks |-> assigned]

(***************************************************************************)
(* updateTask's merge:  tasks.map(task => task.id === taskId               *)
(*                                  ? { ...task, ...updates } : task)      *)
(***************************************************************************)
Merge(task, updates) ==
  [f \in DOMAIN task \cup DOMAIN updates |->
     IF f \in DOMAIN updates THEN updates[f] ELSE task[f]]

\* the map of updateTask without the test on the id
WithEveryTaskUpdated(d, taskId, updates) ==
  [d EXCEPT !.tasks =
     [i \in DOMAIN d.tasks |-> Merge(d.tasks[i], updates)]]

WithTaskUpdated(d, taskId, updates) ==
  [d EXCEPT !.tasks =
     [i \in DOMAIN d.tasks |->
        IF d.tasks[i].id = taskId THEN Merge(d.tasks[i], updates) ELSE d.tasks[i]]]

(***************************************************************************)
(* localStorage: two string slots.  A string is a sequence of characters   *)
(* for the timestamp and a JSON text for the snapshot; a missing item      *)
(* (getItem gives null) and the empty string are both falsy.               *)
(***************************************************************************)
NoItem == << >>

Digit(n) == << "0", "1", "2", "3", "4", "5", "6", "7", "8", "9" >>[n + 1]

\* Number.prototype.toString of a non-negative integer
RECURSIVE NumberToString(_)
NumberToString(n) ==
  IF n < 10 THEN << Digit(n) >>
  ELSE NumberToString(n \div 10) \o << Digit(n % 10) >>

DigitValue(c) == CHOOSE n \in 0..9 : Digit(n) = c

IsDigit(c) == \E n \in 0..9 : Digit(n) = c

\* NaN
NotANumber == -1

\* parseInt of a string: its leading decimal digits, NaN when there are none
RECURSIVE ParseDigits(_, _)
ParseDigits(s, acc) ==
  IF s = << >> \/ ~IsDigit(Head(s)) THEN acc
  ELSE ParseDigits(Tail(s), 10 * acc + DigitValue(Head(s)))

ParseInt(s) ==
  IF s = << >> \/ ~IsDigit(Head(s)) THEN NotANumber ELSE ParseDigits(s, 0)

\* JSON.stringify of a snapshot: a text that holds the structure
Stringify(d) == [json |-> d]

\* a missing item (getItem gives null)
NoText == [none |-> TRUE]

\* JSON.parse succeeds on the texts JSON.stringify wrote
Parses(text) == DOMAIN text = {"json"}

JSONParse(text) == text.json

EmptyStorage == [data |-> NoText, timestamp |-> NoItem]

\* what loadFromCache returns for "no usable entry"
NullData == [null |-> TRUE]

\* loadFromCache with the age test written `age <= REFRESH_INTERVAL`
loadFromCacheInclusive(storage, t) ==
  IF storage.data # NoText /\ storage.timestamp # NoItem
  THEN IF /\ ParseInt(storage.timestamp) # NotANumber
          /\ t - ParseInt(storage.timestamp) <= REFRESH_INTERVAL
       THEN IF Parses(storage.data) THEN JSONParse(storage.data) ELSE NullData
       ELSE NullData
  ELSE NullData

\* loadFromCache at time t
loadFromCache(storage, t) ==
  IF storage.data # NoText /\ storage.timestamp # NoItem
  THEN IF /\ ParseInt(storage.timestamp) # NotANumber
          /\ t - ParseInt(storage.timestamp) < REFRESH_INTERVAL
       THEN IF Parses(storage.data) THEN JSONParse(storage.data) ELSE NullData
       ELSE NullData
  ELSE NullData

\* saveToCache at time t
saveToCache(groupData, t) ==
  [data |-> Stringify(groupData), timestamp |-> NumberToString(t)]

\* a localStorage whose quota is used up: setItem throws
QuotaExceeded(st) == "full" \in DOMAIN st

\* saveToCache at time t on localStorage st: the first setItem throws when
\* the quota is used up, the catch block logs it
saveToCacheOn(st, groupData, t) ==
  IF QuotaExceeded(st) THEN st ELSE saveToCache(groupData, t)

(***************************************************************************)
(* State.                                                                  *)
(***************************************************************************)
VARIABLES
  groupId,     \* the hook's argument in the latest render
  mounted,     \* the component that uses the hook is mounted
  data,        \* useState: the snapshot (fullData)
  loading,     \* useState
  error,       \* useState: "null" or a message
  storage,     \* localStorage: the two cache slots
  timers,      \* armed setInterval callbacks: the group each captured, when due
  fetches,     \* refetch() invocations suspended at an await
  updates,     \* updateTask() invocations suspended at their await
  remote,      \* Task.completed in the remote table, per task id
  toast,       \* what handleToggleComplete last showed
  now,         \* Date.now()
  ticks,       \* clock advances so far
  issued,      \* refetch() invocations that reached the remote so far
  called,      \* history: the updateTask() calls so far, in call order
  fetched,     \* history: refetch() invocations that got a snapshot so far
  asked,       \* history: refetch() calls of the caller and of the timers, group active
  fetchedAt,   \* history: Date.now() when a refetch() last got a snapshot
  lastSave,    \* history: when saveToCache last ran, and with what
  isWorkSession, \* StudyMode useState
  timeLeft,      \* StudyMode useState: seconds
  isRunning,     \* StudyMode useState
  sounds         \* history: playNotificationSound() calls so far

hookVars == << groupId, mounted, data, loading, error, storage, timers,
              fetches, updates, remote, toast, now, ticks, issued, called,
              fetched, asked, fetchedAt, lastSave >>

studyMode == << isWorkSession, timeLeft, isRunning, sounds >>

vars == << hookVars, studyMode >>

clock == << now, ticks >>

NeverSaved == [at |-> -1, data |-> EmptyData]

NoError == "null"

\* err instanceof Error ? err.message : "Failed to load data"
ErrorMessages == {"Failed to load data"}

\* refetch() suspended in fetchGroupData: the group id its closure holds, the
\* read it awaits, the task rows it has read
Fetch(g, pc, tasks) == [g |-> g, pc |-> pc, tasks |-> tasks]

\* updateTask() suspended at the remote update: its arguments, the data its
\* closure holds, the response of the remote
Update(taskId, upd, captured, resp) ==
  [taskId |-> taskId, updates |-> upd, data |-> captured, resp |-> resp]

One(x) == SetToBag({x})

\* StudyMode's useState initial values
StudyModeInit ==
  /\ isWorkSession = TRUE
  /\ timeLeft = 60 * 60
  /\ isRunning = FALSE
  /\ sounds = 0

Init ==
  /\ groupId = NoGroup
  /\ mounted = TRUE
  /\ data = EmptyData
  /\ loading = FALSE
  /\ error = NoError
  /\ storage = EmptyStorage
  /\ timers = << >>
  /\ fetches = EmptyBag
  /\ updates = EmptyBag
  /\ remote = [t \in TaskIds |-> FALSE]
  /\ toast = "none"
  /\ now = 0
  /\ ticks = 0
  /\ issued = 0
  /\ called = << >>
  /\ fetched = 0
  /\ asked = 0
  /\ fetchedAt = 0
  /\ lastSave = NeverSaved
  /\ StudyModeInit

\* refetch behind the cache-freshness check of loadFromCache
refetchIfStale(g) ==
  IF g = NoGroup
  THEN /\ loading' = FALSE
       /\ UNCHANGED << error, fetches, issued >>
  ELSE IF loadFromCache(storage, now) # NullData
  THEN UNCHANGED << loading, error, fetches, issued >>
  ELSE /\ issued < MaxFetches
       /\ loading' = TRUE
       /\ error' = NoError
       /\ fetches' = fetches (+) One(Fetch(g, "group", << >>))
       /\ issued' = issued + 1

(***************************************************************************)
(* refetch, from its call to the first await.  g is the groupId the        *)
(* refetch closure holds.                                                  *)
(***************************************************************************)
refetch(g) ==
  IF g = NoGroup
  THEN /\ loading' = FALSE
       /\ UNCHANGED << error, fetches, issued >>
  ELSE /\ issued < MaxFetches
       /\ loading' = TRUE
       /\ error' = NoError
       /\ fetches' = fetches (+) One(Fetch(g, "group", << >>))
       /\ issued' = issued + 1

(***************************************************************************)
(* A render with a new groupId, and the effects that follow it: the        *)
(* cleanup of the auto-refresh effect, the initial-load effect, the        *)
(* auto-refresh effect.                                                    *)
(***************************************************************************)
\* the initial-load effect returning after a cache hit, without refetch()
InitialLoadCacheFirst(g) ==
  IF g = NoGroup
  THEN /\ loading' = FALSE
       /\ UNCHANGED << data, error, fetches, issued >>
  ELSE IF loadFromCache(storage, now) # NullData
       THEN /\ data' = loadFromCache(storage, now)
            /\ loading' = FALSE
            /\ UNCHANGED << error, fetches, issued >>
       ELSE /\ data' = data
            /\ refetch(g)

\* the initial-load effect with an unparsable snapshot reported through
\* setError, the effect ending there
InitialLoadCacheError(g) ==
  IF g = NoGroup
  THEN /\ loading' = FALSE
       /\ UNCHANGED << data, error, fetches, issued >>
  ELSE IF storage.data # NoText /\ ~Parses(storage.data)
       THEN /\ error' = "Failed to load data"
            /\ loading' = FALSE
            /\ UNCHANGED << data, fetches, issued >>
       ELSE /\ LET cachedData == loadFromCache(storage, now)
               IN  data' = IF cachedData # NullData THEN cachedData ELSE data
            /\ refetch(g)

\* the initial-load effect
InitialLoad(g) ==
  IF g = NoGroup
  THEN /\ loading' = FALSE
       /\ UNCHANGED << data, error, fetches, issued >>
  ELSE /\ LET cachedData == loadFromCache(storage, now)
          IN  data' = IF cachedData # NullData THEN cachedData ELSE data
       /\ refetch(g)

\* the cleanup of the auto-refresh effect that ran for group g: clearInterval
\* of the interval that run armed
clearInterval(ts, g) == SelectSeq(ts, LAMBDA tm : tm.g # g)

\* the auto-refresh effect re-run without the cleanup of its previous run
AutoRefreshNoCleanup(g) ==
  timers' = timers \o (IF g = NoGroup THEN << >>
                       ELSE << [g |-> g, due |-> now + REFRESH_INTERVAL] >>)

\* the auto-refresh effect: cleanup of the previous run, then this run
AutoRefresh(g) ==
  timers' = clearInterval(timers, groupId)
              \o (IF g = NoGroup THEN << >>
                  ELSE << [g |-> g, due |-> now + REFRESH_INTERVAL] >>)

SetGroup(g) ==
  /\ mounted
  /\ g # groupId
  /\ groupId' = g
  /\ InitialLoad(g)
  /\ AutoRefresh(g)
  /\ UNCHANGED << studyMode,
                  mounted, storage, updates, remote, toast, clock, called,
                  fetched, asked, fetchedAt, lastSave >>

\* the caller invokes refetch of the latest render
Refetch ==
  /\ mounted
  /\ refetch(groupId)
  /\ asked' = IF groupId = NoGroup THEN asked ELSE asked + 1
  /\ UNCHANGED << studyMode,
                  groupId, mounted, data, storage, timers, updates, remote,
                  toast, clock, called,
                  fetched, fetchedAt, lastSave >>

\* an armed interval comes due and calls the refetch it captured
TimerFire(i) ==
  /\ now >= timers[i].due
  /\ refetch(timers[i].g)
  /\ timers' = [timers EXCEPT ![i].due = @ + REFRESH_INTERVAL]
  /\ asked' = asked + 1
  /\ UNCHANGED << studyMode,
                  groupId, mounted, data, storage, updates, remote, toast,
                  clock, called,
                  fetched, fetchedAt, lastSave >>

\* the component unmounts: effect cleanups run, state setters become no-ops
Unmount ==
  /\ mounted
  /\ mounted' = FALSE
  /\ timers' = clearInterval(timers, groupId)
  /\ UNCHANGED << studyMode,
                  groupId, data, loading, error, storage, fetches, updates,
                  remote, toast, clock, issued, called,
                  fetched, asked, fetchedAt, lastSave >>

(***************************************************************************)
(* refetch, resumed when a read of fetchGroupData answers.                 *)
(***************************************************************************)
\* refetch's catch block with a setData that blanks the snapshot
FetchFailedBlank(f, msg) ==
  /\ fetches' = fetches (-) One(f)
  /\ error' = IF mounted THEN msg ELSE error
  /\ loading' = IF mounted THEN FALSE ELSE loading
  /\ data' = IF mounted THEN EmptyData ELSE data
  /\ UNCHANGED << storage, fetched, fetchedAt, lastSave >>

\* refetch's catch block with a removeItem of both cache slots
FetchFailedInvalidates(f, msg) ==
  /\ fetches' = fetches (-) One(f)
  /\ error' = IF mounted THEN msg ELSE error
  /\ loading' = IF mounted THEN FALSE ELSE loading
  /\ storage' = [storage EXCEPT !.data = NoText, !.timestamp = NoItem]
  /\ UNCHANGED << data, fetched, fetchedAt, lastSave >>

\* refetch with the setLoading(false) at the end of the try block instead
\* of in finally: the catch block leaves loading as it is
FetchFailedNoFinally(f, msg) ==
  /\ fetches' = fetches (-) One(f)
  /\ error' = IF mounted THEN msg ELSE error
  /\ UNCHANGED << data, loading, storage, fetched, fetchedAt, lastSave >>

\* a read answered with an error: fetchGroupData rethrows, refetch catches
FetchFailed(f, msg) ==
  /\ fetches' = fetches (-) One(f)
  /\ error' = IF mounted THEN msg ELSE error
  /\ loading' = IF mounted THEN FALSE ELSE loading
  /\ UNCHANGED << data, storage, fetched, fetchedAt, lastSave >>

\* refetch that keeps the snapshot it already holds for the group
\* (first completed wins)
FetchDoneFirstWins(f, tasks, assigned) ==
  LET groupData == FetchedData(f.g, tasks, assigned)
  IN  /\ fetches' = fetches (-) One(f)
      /\ data' = IF mounted /\ data.group # groupData.group
                 THEN groupData ELSE data
      /\ storage' = saveToCache(groupData, now)
      /\ lastSave' = [at |-> now, data |-> groupData]
      /\ loading' = IF mounted THEN FALSE ELSE loading
      /\ fetched' = fetched + 1
      /\ fetchedAt' = now
      /\ UNCHANGED error

\* refetch with a saveToCache that writes the snapshot slot only
FetchDoneSnapshotSlotOnly(f, tasks, assigned) ==
  LET groupData == FetchedData(f.g, tasks, assigned)
  IN  /\ fetches' = fetches (-) One(f)
      /\ data' = IF mounted THEN groupData ELSE data
      /\ storage' = [storage EXCEPT !.data = Stringify(groupData)]
      /\ lastSave' = [at |-> now, data |-> groupData]
      /\ loading' = IF mounted THEN FALSE ELSE loading
      /\ fetched' = fetched + 1
      /\ fetchedAt' = now
      /\ UNCHANGED error

\* refetch with a saveToCache that lets the exception of setItem through:
\* refetch's catch block takes it
FetchDoneWriteThrows(f, tasks, assigned) ==
  LET groupData == FetchedData(f.g, tasks, assigned)
  IN  /\ fetches' = fetches (-) One(f)
      /\ data' = IF mounted THEN groupData ELSE data
      /\ storage' = saveToCacheOn(storage, groupData, now)
      /\ lastSave' = [at |-> now, data |-> groupData]
      /\ loading' = IF mounted THEN FALSE ELSE loading
      /\ fetched' = fetched + 1
      /\ fetchedAt' = now
      /\ error' = IF mounted /\ QuotaExceeded(storage)
                  THEN "Failed to load data" ELSE error

\* fetchGroupData returned: setData, saveToCache, finally setLoading(false)
FetchDone(f, tasks, assigned) ==
  LET groupData == FetchedData(f.g, tasks, assigned)
  IN  /\ fetches' = fetches (-) One(f)
      /\ data' = IF mounted THEN groupData ELSE data
      /\ storage' = saveToCacheOn(storage, groupData, now)
      /\ lastSave' = [at |-> now, data |-> groupData]
      /\ loading' = IF mounted THEN FALSE ELSE loading
      /\ fetched' = fetched + 1
      /\ fetchedAt' = now
      /\ UNCHANGED error

\* the read answered and the next one is issued
FetchNext(f, pc, tasks) ==
  /\ fetches' = (fetches (-) One(f)) (+) One(Fetch(f.g, pc, tasks))
  /\ UNCHANGED << data, loading, error, storage, fetched, fetchedAt, lastSave >>

\* reads 1-3: Group (.single(): no row is an error), User, Image
ReadRows(f, pc, next, ok, msg) ==
  /\ f.pc = pc
  /\ IF ok THEN FetchNext(f, next, << >>) ELSE FetchFailed(f, msg)
  /\ UNCHANGED << studyMode,
                  groupId, mounted, timers, updates, remote, toast, clock,
                  issued, called, asked >>

ReadGroup(f, ok, msg) == ReadRows(f, "group", "users", ok, msg)

ReadUsers(f, ok, msg) == ReadRows(f, "users", "images", ok, msg)

ReadImages(f, ok, msg) == ReadRows(f, "images", "tasks", ok, msg)

\* read 4 followed by read 5 whether or not there are task ids
ReadTasksAlwaysJoin(f, ok, msg) ==
  /\ f.pc = "tasks"
  /\ IF ok
     THEN FetchNext(f, "assigned", TasksOf(f.g, remote))
     ELSE FetchFailed(f, msg)
  /\ UNCHANGED << studyMode,
                  groupId, mounted, timers, updates, remote, toast, clock,
                  issued, called, asked >>

\* read 4: Task; without task ids read 5 is skipped
ReadTasks(f, ok, msg) ==
  /\ f.pc = "tasks"
  /\ IF ok
     THEN LET tasksData == TasksOf(f.g, remote)
          IN  IF Len(tasksData) > 0
              THEN FetchNext(f, "assigned", tasksData)
              ELSE FetchDone(f, tasksData, << >>)
     ELSE FetchFailed(f, msg)
  /\ UNCHANGED << studyMode,
                  groupId, mounted, timers, updates, remote, toast, clock,
                  issued, called, asked >>

\* read 5: assigned_tasks; its error is logged and the rows are taken as []
ReadAssigned(f, ok) ==
  /\ f.pc = "assigned"
  /\ LET taskIds == { f.tasks[i].id : i \in DOMAIN f.tasks }
         assignedTasksData == IF ok THEN AssignedOf(taskIds) ELSE << >>
     IN  FetchDone(f, f.tasks, assignedTasksData)
  /\ UNCHANGED << studyMode,
                  groupId, mounted, timers, updates, remote, toast, clock,
                  issued, called, asked >>

(***************************************************************************)
(* updateTask and its caller handleToggleComplete.                         *)
(***************************************************************************)
\* updateTask with the setData moved before the await
UpdateTaskCallOptimistic(taskId, upd) ==
  /\ mounted
  /\ Len(called) < MaxUpdates
  /\ called' = Append(called, [taskId |-> taskId, updates |-> upd])
  /\ updates' = updates (+) One(Update(taskId, upd, data, "pending"))
  /\ data' = WithTaskUpdated(data, taskId, upd)
  /\ UNCHANGED << studyMode,
                  groupId, mounted, loading, error, storage, timers,
                  fetches, remote, toast, clock, issued, fetched, asked, fetchedAt,
                  lastSave >>

\* updateTask up to its await: the remote update is issued; at most budget
\* calls are made
UpdateTaskCallWithin(taskId, upd, budget) ==
  /\ mounted
  /\ Len(called) < budget
  /\ called' = Append(called, [taskId |-> taskId, updates |-> upd])
  /\ updates' = updates (+) One(Update(taskId, upd, data, "pending"))
  /\ UNCHANGED << studyMode,
                  groupId, mounted, data, loading, error, storage, timers,
                  fetches, remote, toast, clock, issued, fetched, asked, fetchedAt,
                  lastSave >>

UpdateTaskCall(taskId, upd) == UpdateTaskCallWithin(taskId, upd, MaxUpdates)

\* the remote applies .update(updates).eq("id", taskId), or reports an error
RemoteUpdate(u, ok) ==
  /\ u.resp = "pending"
  /\ updates' = (updates (-) One(u))
                  (+) One(Update(u.taskId, u.updates, u.data,
                                 IF ok THEN "ok" ELSE "error"))
  /\ remote' = IF ok /\ u.taskId \in TaskIds
               THEN [remote EXCEPT ![u.taskId] = u.updates.completed]
               ELSE remote
  /\ UNCHANGED << studyMode,
                  groupId, mounted, data, loading, error, storage, timers,
                  fetches, toast, clock, issued, called,
                  fetched, asked, fetchedAt, lastSave >>

\* updateTask whose catch block logs the error and does not rethrow it
UpdateTaskResumeSwallow(u) ==
  /\ u.resp # "pending"
  /\ updates' = updates (-) One(u)
  /\ IF u.resp = "error"
     THEN /\ toast' = "success"
          /\ UNCHANGED << data, storage, lastSave >>
     ELSE LET updatedData == WithTaskUpdated(u.data, u.taskId, u.updates)
          IN  /\ data' = IF mounted
                         THEN WithTaskUpdated(data, u.taskId, u.updates)
                         ELSE data
              /\ storage' = saveToCache(updatedData, now)
              /\ lastSave' = [at |-> now, data |-> updatedData]
              /\ toast' = "success"
  /\ UNCHANGED << studyMode,
                  groupId, mounted, loading, error, timers, fetches, remote,
                  clock, issued, called,
                  fetched, asked, fetchedAt >>

\* updateTask resumed after the await; the caller shows a toast
UpdateTaskResume(u) ==
  /\ u.resp # "pending"
  /\ updates' = updates (-) One(u)
  /\ IF u.resp = "error"
     THEN /\ toast' = "error"
          /\ UNCHANGED << data, storage, lastSave >>
     ELSE LET updatedData == WithTaskUpdated(u.data, u.taskId, u.updates)
          IN  /\ data' = IF mounted
                         THEN WithTaskUpdated(data, u.taskId, u.updates)
                         ELSE data
              /\ storage' = saveToCacheOn(storage, updatedData, now)
              /\ lastSave' = [at |-> now, data |-> updatedData]
              /\ toast' = "success"
  /\ UNCHANGED << studyMode,
                  groupId, mounted, loading, error, timers, fetches, remote,
                  clock, issued, called,
                  fetched, asked, fetchedAt >>

\* time passes
Tick(d) ==
  /\ ticks < MaxTicks
  /\ now' = now + d
  /\ ticks' = ticks + 1
  /\ UNCHANGED << studyMode,
                  groupId, mounted, data, loading, error, storage, timers,
                  fetches, updates, remote, toast, issued, called,
                  fetched, asked, fetchedAt, lastSave >>

Next ==
  \/ \E g \in GroupIds \cup {NoGroup} : SetGroup(g)
  \/ Refetch
  \/ \E i \in DOMAIN timers : TimerFire(i)
  \/ Unmount
  \/ \E f \in BagToSet(fetches), ok \in BOOLEAN, msg \in ErrorMessages :
       \/ ReadGroup(f, ok, msg)
       \/ ReadUsers(f, ok, msg)
       \/ ReadImages(f, ok, msg)
       \/ ReadTasks(f, ok, msg)
  \/ \E f \in BagToSet(fetches), ok \in BOOLEAN : ReadAssigned(f, ok)
  \/ \E t \in TaskIds, v \in BOOLEAN :
       UpdateTaskCall(t, [completed |-> v])
  \/ \E u \in BagToSet(updates), ok \in BOOLEAN : RemoteUpdate(u, ok)
  \/ \E u \in BagToSet(updates) : UpdateTaskResume(u)
  \/ \E d \in TickSteps : Tick(d)

Spec == Init /\ [][Next]_vars

(***************************************************************************)
(* The hook with a remote source that answers: a read that is out is       *)
(* eventually answered, with rows or with an error.                        *)
(***************************************************************************)
ReadAnswered ==
  \/ \E f \in BagToSet(fetches), ok \in BOOLEAN, msg \in ErrorMessages :
       \/ ReadGroup(f, ok, msg)
       \/ ReadUsers(f, ok, msg)
       \/ ReadImages(f, ok, msg)
       \/ ReadTasks(f, ok, msg)
  \/ \E f \in BagToSet(fetches), ok \in BOOLEAN : ReadAssigned(f, ok)

SpecResponsive == Init /\ [][Next]_vars /\ WF_vars(ReadAnswered)

(***************************************************************************)
(* The store mounted in a browser whose localStorage already holds what an *)
(* earlier session, or anything else on the origin, left under the two     *)
(* keys.                                                                   *)
(***************************************************************************)
\* a text on which JSON.parse throws
CorruptText == [garbage |-> TRUE]

\* the snapshot of group 1 as an earlier session fetched it
EarlierData == FetchedData(1, TasksOf(1, [t \in TaskIds |-> FALSE]),
                           AssignedOf(TaskIds))

\* nothing; an entry written at time 0; that entry with an unparsable
\* snapshot; that entry with a timestamp that is not a number
CachedEntries ==
  { EmptyStorage,
    saveToCache(EarlierData, 0),
    [data |-> CorruptText, timestamp |-> NumberToString(0)],
    [data |-> Stringify(EarlierData), timestamp |-> << "x" >>] }

InitCache ==
  /\ groupId = NoGroup
  /\ mounted = TRUE
  /\ data = EmptyData
  /\ loading = FALSE
  /\ error = NoError
  /\ storage \in CachedEntries
  /\ timers = << >>
  /\ fetches = EmptyBag
  /\ updates = EmptyBag
  /\ remote = [t \in TaskIds |-> FALSE]
  /\ toast = "none"
  /\ now = 0
  /\ ticks = 0
  /\ issued = 0
  /\ called = << >>
  /\ fetched = 0
  /\ asked = 0
  /\ fetchedAt = 0
  /\ lastSave = NeverSaved
  /\ StudyModeInit

SpecCache == InitCache /\ [][Next]_vars

(***************************************************************************)
(* The hook on a localStorage whose quota is used up, empty or holding an  *)
(* earlier snapshot: getItem answers, every setItem throws.                *)
(***************************************************************************)
FullEntries ==
  { [data |-> e.data, timestamp |-> e.timestamp, full |-> TRUE] :
      e \in {EmptyStorage, saveToCache(EarlierData, 0)} }

InitQuota ==
  /\ groupId = NoGroup
  /\ mounted = TRUE
  /\ data = EmptyData
  /\ loading = FALSE
  /\ error = NoError
  /\ storage \in FullEntries
  /\ timers = << >>
  /\ fetches = EmptyBag
  /\ updates = EmptyBag
  /\ remote = [t \in TaskIds |-> FALSE]
  /\ toast = "none"
  /\ now = 0
  /\ ticks = 0
  /\ issued = 0
  /\ called = << >>
  /\ fetched = 0
  /\ asked = 0
  /\ fetchedAt = 0
  /\ lastSave = NeverSaved
  /\ StudyModeInit

SpecQuota == InitQuota /\ [][Next]_vars

(***************************************************************************)
(* The loaded store under overlapping updateTask calls: group 1 is active  *)
(* and its fetch has completed, the remote accepts every write, nothing    *)
(* else happens.                                                           *)
(***************************************************************************)
InitLoaded ==
  /\ groupId = 1
  /\ mounted = TRUE
  /\ data = EarlierData
  /\ loading = FALSE
  /\ error = NoError
  /\ storage = saveToCache(EarlierData, 0)
  /\ timers = << [g |-> 1, due |-> REFRESH_INTERVAL] >>
  /\ fetches = EmptyBag
  /\ updates = EmptyBag
  /\ remote = [t \in TaskIds |-> FALSE]
  /\ toast = "none"
  /\ now = 0
  /\ ticks = 0
  /\ issued = 1
  /\ called = << >>
  /\ fetched = 1
  /\ asked = 0
  /\ fetchedAt = 0
  /\ lastSave = [at |-> 0, data |-> EarlierData]
  /\ StudyModeInit

NextOverlap ==
  \/ \E t \in TaskIds, v \in BOOLEAN :
       UpdateTaskCallWithin(t, [completed |-> v], MaxOverlap)
  \/ \E u \in BagToSet(updates) : RemoteUpdate(u, TRUE)
  \/ \E u \in BagToSet(updates) : UpdateTaskResume(u)
  \/ \E d \in TickSteps : Tick(d)

SpecOverlap == InitLoaded /\ [][NextOverlap]_vars

(***************************************************************************)
(* StudyMode (TasksCard.tsx): the countdown of a work or break session.    *)
(* The effect of a render runs before the next event is handled; its       *)
(* interval is armed exactly while isRunning and timeLeft > 0.             *)
(***************************************************************************)
MaxSessions == 2

\* the interval callback: setTimeLeft(prev => prev - 1)
StudyTick ==
  /\ isRunning /\ timeLeft > 0
  /\ timeLeft' = timeLeft - 1
  /\ UNCHANGED << hookVars, isWorkSession, isRunning, sounds >>

\* the effect's second branch writing the duration of the session that ended
SessionCompletedSameDuration ==
  /\ timeLeft = 0
  /\ sounds' = sounds + 1
  /\ isWorkSession' = ~isWorkSession
  /\ timeLeft' = IF isWorkSession THEN WORK_TIME ELSE BREAK_TIME
  /\ isRunning' = FALSE
  /\ UNCHANGED hookVars

\* the effect's second branch, timeLeft === 0: sound, switch, stop
SessionCompleted ==
  /\ timeLeft = 0
  /\ sounds' = sounds + 1
  /\ IF isWorkSession
     THEN isWorkSession' = FALSE /\ timeLeft' = BREAK_TIME
     ELSE isWorkSession' = TRUE /\ timeLeft' = WORK_TIME
  /\ isRunning' = FALSE
  /\ UNCHANGED hookVars

\* toggleTimer; no session is started after MaxSessions have completed
toggleTimer ==
  /\ timeLeft > 0
  /\ isRunning \/ sounds < MaxSessions
  /\ isRunning' = ~isRunning
  /\ UNCHANGED << hookVars, isWorkSession, timeLeft, sounds >>

resetTimer ==
  /\ timeLeft > 0
  /\ isRunning' = FALSE
  /\ timeLeft' = IF isWorkSession THEN WORK_TIME ELSE BREAK_TIME
  /\ UNCHANGED << hookVars, isWorkSession, sounds >>

switchMode ==
  /\ timeLeft > 0
  /\ isRunning' = FALSE
  /\ LET newIsWork == ~isWorkSession
     IN  /\ isWorkSession' = newIsWork
         /\ timeLeft' = IF newIsWork THEN WORK_TIME ELSE BREAK_TIME
  /\ UNCHANGED << hookVars, sounds >>

NextStudy ==
  \/ StudyTick
  \/ SessionCompleted
  \/ toggleTimer
  \/ resetTimer
  \/ switchMode

SpecStudy == Init /\ [][NextStudy]_vars

(***************************************************************************)
(* Vocabulary of the properties.                                           *)
(***************************************************************************)
\* this step takes invocation x out of bag b (it resumes, or it answers)
Leaves(x, b, bNext) == CopiesIn(x, bNext) < CopiesIn(x, b)

\* this step puts invocation x into bag b
Enters(x, b, bNext) == CopiesIn(x, bNext) > CopiesIn(x, b)

\* this step ends a refetch() invocation
FetchEnds(f) ==
  /\ Leaves(f, fetches, fetches')
  /\ BagCardinality(fetches') < BagCardinality(fetches)

\* this step is updateTask(u.taskId, u.updates) up to its await
UpdateCalled(u) == u.resp = "pending" /\ Enters(u, updates, updates')

\* this step resumes updateTask after the remote answered u.resp
UpdateResumes(u) == u.resp # "pending" /\ Leaves(u, updates, updates')

\* the tasks of snapshot d with id taskId
TasksWithId(d, taskId) == { t \in Range(d.tasks) : t.id = taskId }

\* task t carries the values of updates
Carries(t, upd) == \A fld \in DOMAIN upd : t[fld] = upd[fld]

(***************************************************************************)
(* C1.  updateTask(id, fields) applies the fields to the matching task of  *)
(* the in-memory snapshot at call time: right after the call, with the     *)
(* remote write issued and unanswered, the task carries the new values.    *)
(***************************************************************************)
C1_AppliedAtCall ==
  [][ \A u \in BagToSet(updates') :
        UpdateCalled(u) =>
          \A t \in TasksWithId(data', u.taskId) : Carries(t, u.updates) ]_vars

(***************************************************************************)
(* C2.  When the remote write of updateTask(id, {completed: true}) fails,  *)
(* the in-memory task has completed = true after the failure.              *)
(***************************************************************************)
C2_FailedUpdateStaysApplied ==
  [][ \A u \in BagToSet(updates) :
        (UpdateResumes(u) /\ u.resp = "error" /\ u.updates.completed) =>
          \A t \in TasksWithId(data', u.taskId) : t.completed ]_vars

(***************************************************************************)
(* C3.  An updateTask whose remote write fails leaves the in-memory        *)
(* snapshot as it was: neither the call, nor the remote's answer, nor the  *)
(* resumption that throws changes data.                                    *)
(***************************************************************************)
C3_FailedUpdateLeavesSnapshot ==
  [][ /\ (\E u \in BagToSet(updates') : UpdateCalled(u)) => data' = data
      /\ \A u \in BagToSet(updates) :
           (u.resp = "pending" /\ Leaves(u, updates, updates')) => data' = data
      /\ \A u \in BagToSet(updates) :
           (UpdateResumes(u) /\ u.resp = "error") => data' = data ]_vars

\* an updateTask failed while the snapshot showed the task with the value
\* the remote kept
C3_Witness ==
  /\ mounted
  /\ toast = "error"
  /\ \E t \in Range(data.tasks) : t.completed = remote[t.id]

(***************************************************************************)
(* C4.  updateTask rejects (its caller lands in catch) exactly when the    *)
(* remote write answered with an error and resolves otherwise, and no step *)
(* of it sets the store's error field.                                     *)
(***************************************************************************)
C4_RejectsIffRemoteError ==
  [][ /\ (\E u \in BagToSet(updates') : UpdateCalled(u)) => error' = error
      /\ \A u \in BagToSet(updates) :
           UpdateResumes(u) =>
             /\ toast' = IF u.resp = "error" THEN "error" ELSE "success"
             /\ error' = error ]_vars

\* an updateTask rejected and the error field is null
C4_Witness ==
  /\ toast = "error"
  /\ updates = EmptyBag
  /\ error = NoError
  /\ issued > 0

(***************************************************************************)
(* C5.  When the answer to the junction read arrives, the fetch either     *)
(* adopts the tasks with the junction rows of the remote, or fails as a    *)
(* whole (snapshot and cache as before, error set): tasks whose assignee   *)
(* lists are empty because the junction read failed are never adopted.     *)
(***************************************************************************)
C5_JunctionFailureAborts ==
  [][ \A f \in BagToSet(fetches) :
        (f.pc = "assigned" /\ FetchEnds(f) /\ mounted) =>
          LET taskIds == { f.tasks[i].id : i \in DOMAIN f.tasks }
          IN  \/ data' = FetchedData(f.g, f.tasks, AssignedOf(taskIds))
              \/ data' = data /\ storage' = storage /\ error' # NoError ]_vars

(***************************************************************************)
(* C6.  When the group, users, images or tasks read of a fetch fails, the  *)
(* step that ends the fetch leaves the in-memory snapshot as it was, and   *)
(* in a mounted store sets error to a message and loading to false.  (For  *)
(* a group without tasks the task read's success ends the fetch too; it is *)
(* told apart by the cache write it makes.)                                *)
(***************************************************************************)
ReadFailed(f) ==
  /\ f.pc \in {"group", "users", "images", "tasks"}
  /\ FetchEnds(f)
  /\ ~ /\ f.pc = "tasks"
       /\ TasksOf(f.g, remote) = << >>
       /\ lastSave' = [at |-> now, data |-> FetchedData(f.g, << >>, << >>)]

C6_FailedFetchKeepsSnapshot ==
  [][ \A f \in BagToSet(fetches) :
        ReadFailed(f) =>
          /\ data' = data
          /\ mounted => (error' \in ErrorMessages /\ loading' = FALSE) ]_vars

\* a fetch failed after an earlier one had succeeded: the snapshot is kept
C6_Witness ==
  /\ mounted
  /\ error \in ErrorMessages
  /\ loading = FALSE
  /\ data.group # NullGroup
  /\ fetches = EmptyBag

(***************************************************************************)
(* C7.  With an active group g, every user, image and task of the exposed  *)
(* snapshot has group reference g.                                         *)
(***************************************************************************)
C7_SnapshotOfActiveGroup ==
  (mounted /\ groupId # NoGroup) =>
    \A x \in Range(data.users) \cup Range(data.images) \cup Range(data.tasks) :
      x.group_id = groupId

(***************************************************************************)
(* C8.  A fetch response that arrives after the store was torn down, or    *)
(* after its group id was cleared or changed, is ignored: it changes       *)
(* neither the in-memory snapshot nor the cache.                           *)
(***************************************************************************)
C8_LateResponseIgnored ==
  [][ \A f \in BagToSet(fetches) :
        (FetchEnds(f) /\ (~mounted \/ f.g # groupId)) =>
          data' = data /\ storage' = storage ]_vars

(***************************************************************************)
(* C9.  While the group id is absent the exposed snapshot is empty and     *)
(* loading is false, and the step that clears the group id issues no       *)
(* remote read and does not touch the cache.                               *)
(***************************************************************************)
C9_NoGroupNoData ==
  /\ [](mounted /\ groupId = NoGroup => data = EmptyData /\ loading = FALSE)
  /\ [][ (groupId # NoGroup /\ groupId' = NoGroup) =>
           issued' = issued /\ fetches' = fetches /\ storage' = storage ]_vars

(***************************************************************************)
(* C10.  An activation with a group id adopts the cache entry as the       *)
(* snapshot exactly when both slots are present and the entry was written  *)
(* less than 5 minutes before: at 4 min 59 s yes, at 5 min 00 s no.        *)
(***************************************************************************)
Activates == groupId' # groupId /\ groupId' # NoGroup

C10_AdoptedIffFresh ==
  [][ Activates =>
        IF /\ storage.data # NoText
           /\ storage.timestamp # NoItem
           /\ now - lastSave.at < 300000
        THEN data' = lastSave.data
        ELSE data' = data ]_vars

\* right after an activation (its interval was armed at this very time, its
\* first read is unanswered) that found an entry written 4 min 59 s before and
\* shows it
C10_Witness ==
  /\ mounted
  /\ groupId # NoGroup
  /\ timers = << [g |-> groupId, due |-> now + REFRESH_INTERVAL] >>
  /\ fetches = One(Fetch(groupId, "group", << >>))
  /\ now - lastSave.at = 299000
  /\ data = lastSave.data
  /\ data.group # NullGroup

(***************************************************************************)
(* C11.  Every activation with a group id issues a remote fetch, whatever  *)
(* the cache holds (a fresh entry, which is adopted, a stale entry, no     *)
(* entry, an unparsable snapshot, an unparsable timestamp); an entry that  *)
(* is not fresh leaves the in-memory snapshot as it was.                   *)
(***************************************************************************)
\* the cache holds an entry written less than REFRESH_INTERVAL ago
FreshEntry ==
  /\ storage.data # NoText
  /\ storage.timestamp # NoItem
  /\ ParseInt(storage.timestamp) # NotANumber
  /\ now - ParseInt(storage.timestamp) < REFRESH_INTERVAL

C11_ActivationAlwaysFetches ==
  [][ Activates =>
        /\ Enters(Fetch(groupId', "group", << >>), fetches, fetches')
        /\ issued' = issued + 1
        /\ (~FreshEntry => data' = data) ]_vars

\* activated over a stale entry: the fetch is in flight, nothing was adopted
C11_Witness ==
  /\ groupId # NoGroup
  /\ fetches = One(Fetch(groupId, "group", << >>))
  /\ issued = 1
  /\ storage = saveToCache(EarlierData, 0)
  /\ now - ParseInt(storage.timestamp) >= REFRESH_INTERVAL
  /\ data = EmptyData

(***************************************************************************)
(* C12.  After an activation that adopts a fresh cache entry, loading is   *)
(* false while the fetch which that activation issued is in flight.        *)
(***************************************************************************)
C12_CacheHitNotLoading ==
  [][ (Activates /\ FreshEntry) => loading' = FALSE ]_vars

(***************************************************************************)
(* C13.  At most one auto-refresh timer is armed, it is the one of the     *)
(* current group id (a change of the group id clears the old one before    *)
(* the new one is armed), and none is armed while the group id is absent   *)
(* or after the store was torn down.                                       *)
(***************************************************************************)
C13_AtMostOneTimer ==
  /\ Len(timers) <= 1
  /\ \A i \in DOMAIN timers : timers[i].g = groupId
  /\ (groupId = NoGroup \/ ~mounted) => timers = << >>

\* the group id changed while a fetch of the old group was in flight: one
\* timer, of the new group
C13_Witness ==
  /\ mounted
  /\ Len(timers) = 1
  /\ timers[1].g = groupId
  /\ \E f \in BagToSet(fetches) : f.g # groupId

(***************************************************************************)
(* C14.  Last completed wins: whenever a fetch of the active group         *)
(* completes successfully, the in-memory snapshot becomes what that fetch  *)
(* read, whether or not other fetches are in flight and whichever was      *)
(* issued first; so once all have completed the snapshot is that of the    *)
(* successful fetch that completed last.                                   *)
(***************************************************************************)
\* this step ends refetch() invocation f with a snapshot
FetchSucceeds(f) == FetchEnds(f) /\ fetched' = fetched + 1

\* the snapshots invocation f can return from where it is suspended
ResultsOf(f) ==
  IF f.pc = "tasks"
  THEN { FetchedData(f.g, TasksOf(f.g, remote), << >>) }
  ELSE { FetchedData(f.g, f.tasks, a) :
           a \in { AssignedOf({ f.tasks[i].id : i \in DOMAIN f.tasks }),
                   << >> } }

C14_LastCompletedWins ==
  [][ \A f \in BagToSet(fetches) :
        (FetchSucceeds(f) /\ mounted /\ f.g = groupId) =>
          data' \in ResultsOf(f) ]_vars

\* two fetches of the active group overlapped (loading is false with one in
\* flight, so the other completed after this one was issued) and the
\* snapshot is that of the one which completed
C14_Witness ==
  /\ mounted
  /\ groupId # NoGroup
  /\ issued = 2
  /\ fetched = 1
  /\ loading = FALSE
  /\ \E f \in BagToSet(fetches) : f.g = groupId
  /\ data.group = Group(groupId)
  /\ data = lastSave.data

(***************************************************************************)
(* C15.  When two updateTask calls on the same task have both completed,   *)
(* the in-memory task carries the values of the later call, also when the  *)
(* later call was made before the earlier call's remote write resolved and *)
(* whatever order the two writes resolve in.                               *)
(***************************************************************************)
C15_LaterCallWins ==
  ( /\ mounted
    /\ Len(called) = 2
    /\ called[1].taskId = called[2].taskId
    /\ updates = EmptyBag )
  => \A t \in TasksWithId(data, called[2].taskId) :
       Carries(t, called[2].updates)

(***************************************************************************)
(* C16.  In the snapshot of every successful fetch, each task's            *)
(* assigned_task_ids is the list of the user ids of the junction rows of   *)
(* that task, in row order, unresolved ids included and empty for a task   *)
(* without rows; its assignees is that list with every id replaced by the  *)
(* fetched user of that id and the ids without one dropped, in the same    *)
(* order.  The junction rows are those the fetch kept (assignedTasks).     *)
(***************************************************************************)
\* the user ids of the rows of task taskId, in row order
RECURSIVE IdsOfRows(_, _)
IdsOfRows(rows, taskId) ==
  IF rows = << >> THEN << >>
  ELSE (IF Head(rows).task_id = taskId THEN << Head(rows).user_id >> ELSE << >>)
         \o IdsOfRows(Tail(rows), taskId)

\* the users of those ids, in order, without the ids that have no user
RECURSIVE Resolved(_, _)
Resolved(ids, users) ==
  IF ids = << >> THEN << >>
  ELSE (IF \E u \in Range(users) : u.id = Head(ids)
        THEN << CHOOSE u \in Range(users) : u.id = Head(ids) >>
        ELSE << >>)
         \o Resolved(Tail(ids), users)

C16_AssigneesEnriched ==
  [][ \A f \in BagToSet(fetches) :
        (FetchSucceeds(f) /\ mounted) =>
          \A t \in Range(data'.tasks) :
            /\ t.assigned_task_ids = IdsOfRows(data'.assignedTasks, t.id)
            /\ t.assignees = Resolved(t.assigned_task_ids, data'.users) ]_vars

\* a fetched snapshot with a task that has three rows, one of them of an
\* unknown user, and a task that has none
C16_Witness ==
  /\ mounted
  /\ fetched > 0
  /\ data = lastSave.data
  /\ data.assignedTasks # << >>
  /\ \E t \in Range(data.tasks) :
       Len(t.assigned_task_ids) = 3 /\ Len(t.assignees) = 2
  /\ \E t \in Range(data.tasks) :
       t.assigned_task_ids = << >> /\ t.assignees = << >>

C18_NoTasksNoJunctionRead ==
  [][ \A f \in BagToSet(fetches) :
        ( /\ f.pc = "tasks"
          /\ Leaves(f, fetches, fetches')
          /\ TasksOf(f.g, remote) = << >> ) =>
          /\ FetchEnds(f)
          /\ \A f2 \in BagToSet(fetches') :
               f2.pc = "assigned" => ~Enters(f2, fetches, fetches')
          /\ \/ /\ FetchSucceeds(f)
                /\ lastSave'.data.tasks = << >>
                /\ lastSave'.data.assignedTasks = << >>
                /\ mounted => (data' = lastSave'.data /\ error' = error
                                /\ loading' = FALSE)
             \/ /\ fetched' = fetched
                /\ mounted => error' \in ErrorMessages ]_vars

\* the fetch of the group without tasks has succeeded
C18_Witness ==
  /\ mounted
  /\ groupId # NoGroup
  /\ TasksOf(groupId, remote) = << >>
  /\ fetched = 1
  /\ issued = 1
  /\ fetches = EmptyBag
  /\ error = NoError
  /\ loading = FALSE
  /\ data = FetchedData(groupId, << >>, << >>)
  /\ storage = saveToCache(data, now)

(***************************************************************************)
(* C19.  The snapshot updateTask writes to the cache is the in-memory      *)
(* snapshot that results from the update, also when a fetch completed and  *)
(* replaced the in-memory snapshot between the call and the local apply.   *)
(***************************************************************************)
C19_CacheWriteMatchesMemory ==
  [][ \A u \in BagToSet(updates) :
        (UpdateResumes(u) /\ u.resp = "ok" /\ mounted) =>
          /\ storage'.data = Stringify(data')
          /\ lastSave'.data = data' ]_vars

(***************************************************************************)
(* C20.  Every successful fetch overwrites both cache slots: right after   *)
(* it completes the cached snapshot is the snapshot the fetch returned     *)
(* (the one it put in memory), the cached timestamp reads as the time of   *)
(* the write, and nothing of a prior entry is left.                        *)
(***************************************************************************)
C20_FetchOverwritesCache ==
  [][ \A f \in BagToSet(fetches) :
        FetchSucceeds(f) =>
          /\ \E r \in ResultsOf(f) :
               /\ storage' = [data |-> Stringify(r),
                              timestamp |-> NumberToString(now)]
               /\ mounted => data' = r
          /\ Parses(storage'.data)
          /\ mounted => JSONParse(storage'.data) = data'
          /\ ParseInt(storage'.timestamp) = now ]_vars

\* a second fetch succeeded, later than the first: it overwrote an entry
C20_Witness ==
  /\ mounted
  /\ fetched = 2
  /\ now > 0
  /\ fetches = EmptyBag
  /\ called = << >>
  /\ storage = saveToCache(data, now)
  /\ data.group = Group(groupId)

(***************************************************************************)
(* C21.  An activation that finds a snapshot slot which cannot be parsed   *)
(* treats it as a cache miss: the in-memory snapshot is left as it was,    *)
(* error is null after the activation, and the remote fetch is issued.     *)
(***************************************************************************)
C21_MalformedCacheIsMiss ==
  [][ (Activates /\ storage.data # NoText /\ ~Parses(storage.data)) =>
        /\ data' = data
        /\ error' = NoError
        /\ Enters(Fetch(groupId', "group", << >>), fetches, fetches')
        /\ storage' = storage ]_vars

\* activated over an unparsable snapshot with a fresh timestamp
C21_Witness ==
  /\ mounted
  /\ groupId # NoGroup
  /\ storage.data = CorruptText
  /\ ParseInt(storage.timestamp) # NotANumber
  /\ now - ParseInt(storage.timestamp) < REFRESH_INTERVAL
  /\ fetches = One(Fetch(groupId, "group", << >>))
  /\ issued = 1
  /\ data = EmptyData
  /\ error = NoError

(***************************************************************************)
(* C22.  A failing cache write does not fail the operation that triggered  *)
(* it: on a localStorage that rejects every write, a fetch that read       *)
(* everything still puts its snapshot into memory, ends loading and raises *)
(* no error, and an updateTask whose remote write succeeded still updates  *)
(* memory and resolves; the storage keeps what it held.                    *)
(***************************************************************************)
C22_FailedWriteIsSwallowed ==
  [][ QuotaExceeded(storage) =>
        /\ \A f \in BagToSet(fetches) :
             (FetchSucceeds(f) /\ mounted) =>
               /\ data' \in ResultsOf(f)
               /\ loading' = FALSE
               /\ error' = error
               /\ storage' = storage
        /\ \A u \in BagToSet(updates) :
             (UpdateResumes(u) /\ u.resp = "ok" /\ mounted) =>
               /\ data' = WithTaskUpdated(data, u.taskId, u.updates)
               /\ toast' = "success"
               /\ error' = error
               /\ storage' = storage ]_vars

\* a fetch has completed and an update has resolved on the full storage,
\* which still holds the earlier entry
C22_Witness ==
  /\ QuotaExceeded(storage)
  /\ storage.data = Stringify(EarlierData)
  /\ mounted /\ groupId = 1
  /\ fetched = 1 /\ fetches = EmptyBag
  /\ toast = "success" /\ updates = EmptyBag
  /\ data # EarlierData /\ data # EmptyData
  /\ lastSave.data = data
  /\ loading = FALSE /\ error = NoError

(***************************************************************************)
(* C23.  While a group id is active, every refetch() call of the caller    *)
(* and every auto-refresh timer tick issues the remote reads for the       *)
(* active group, whether or not the cache holds a fresh entry, and adopts  *)
(* nothing from the cache.                                                 *)
(***************************************************************************)
C23_RefetchBypassesCache ==
  [][ asked' # asked =>
        /\ groupId # NoGroup
        /\ Enters(Fetch(groupId, "group", << >>), fetches, fetches')
        /\ BagCardinality(fetches') = BagCardinality(fetches) + 1
        /\ loading' = TRUE
        /\ data' = data
        /\ storage' = storage ]_vars

\* the timer fired one interval after activation, right after the initial
\* fetch had written a fresh entry: loading is on again and the reads of
\* the second fetch are out
C23_Witness ==
  /\ mounted /\ groupId # NoGroup
  /\ asked = 1 /\ issued = 2 /\ fetched = 1
  /\ timers = << [g |-> groupId, due |-> 2 * REFRESH_INTERVAL] >>
  /\ now = REFRESH_INTERVAL
  /\ called = << >>
  /\ lastSave.at = now
  /\ FreshEntry
  /\ loading = TRUE
  /\ fetches = One(Fetch(groupId, "group", << >>))

(***************************************************************************)
(* C24.  Right after any fetch has completed successfully the error field  *)
(* is null, also when an overlapping fetch has failed in between.          *)
(***************************************************************************)
C24_SuccessClearsError ==
  [][ \A f \in BagToSet(fetches) :
        (FetchSucceeds(f) /\ mounted) => error' = NoError ]_vars

(***************************************************************************)
(* C25.  Once updateTask(t, fields) has resolved successfully the task t   *)
(* in memory keeps the updated values: a fetch that read the task before   *)
(* the remote write and completes after the update does not revert them.   *)
(***************************************************************************)
C25_FetchKeepsUpdate ==
  [][ \A f \in BagToSet(fetches) :
        ( /\ FetchSucceeds(f)
          /\ mounted
          /\ Len(called) = 1 /\ updates = EmptyBag /\ toast = "success"
          /\ \E t \in TasksWithId(data, called[1].taskId) :
               Carries(t, called[1].updates) )
        => \A t \in TasksWithId(data', called[1].taskId) :
             Carries(t, called[1].updates) ]_vars

(***************************************************************************)
(* C26.  updateTask(id, fields) changes in memory only the given fields of *)
(* the task whose id matches: every other task, the other fields of that   *)
(* task (assignees and assigned_task_ids among them), and group, users,    *)
(* images and assignedTasks stay as they were; when no task has that id    *)
(* the snapshot is unchanged.                                              *)
(***************************************************************************)
C26_UpdateTouchesGivenFieldsOnly ==
  [][ \A u \in BagToSet(updates) :
        UpdateResumes(u) =>
          /\ data'.group = data.group
          /\ data'.users = data.users
          /\ data'.images = data.images
          /\ data'.assignedTasks = data.assignedTasks
          /\ DOMAIN data'.tasks = DOMAIN data.tasks
          /\ \A i \in DOMAIN data.tasks :
               IF data.tasks[i].id = u.taskId
               THEN /\ DOMAIN data'.tasks[i] = DOMAIN data.tasks[i]
                    /\ \A fld \in DOMAIN data.tasks[i] \ DOMAIN u.updates :
                         data'.tasks[i][fld] = data.tasks[i][fld]
               ELSE data'.tasks[i] = data.tasks[i]
          /\ TasksWithId(data, u.taskId) = {} => data' = data ]_vars

\* the snapshot taken from the cache, no fetch completed since, with the
\* update of one task applied and the other task as it was
C26_Witness ==
  /\ mounted /\ fetched = 0 /\ groupId = 1
  /\ toast = "success" /\ updates = EmptyBag
  /\ Len(called) = 1
  /\ data # EarlierData
  /\ data = WithTaskUpdated(EarlierData, called[1].taskId, called[1].updates)
  /\ \E i \in DOMAIN data.tasks :
       /\ data.tasks[i].id # called[1].taskId
       /\ data.tasks[i] = EarlierData.tasks[i]
  /\ \E i \in DOMAIN data.tasks :
       /\ data.tasks[i].id = called[1].taskId
       /\ data.tasks[i].assignees = EarlierData.tasks[i].assignees
       /\ data.tasks[i].assignees # << >>

(***************************************************************************)
(* C27.  In every reachable state of the mounted hook, a fetch in flight   *)
(* means loading is true, also when several fetches overlap and one of     *)
(* them has already finished.                                              *)
(***************************************************************************)
C27_InFlightImpliesLoading ==
  (mounted /\ fetches # EmptyBag) => loading = TRUE

(***************************************************************************)
(* C28.  After the group id changed from A to B and every operation in     *)
(* flight has completed, the fetches successfully, the snapshot in memory  *)
(* and the snapshot in the cache are both group B's: a fetch for A that    *)
(* was in flight at the switch leaves A's data in neither.                 *)
(***************************************************************************)
C28_SettledOnActiveGroup ==
  ( /\ mounted /\ groupId # NoGroup
    /\ fetches = EmptyBag /\ fetched = issued
    /\ updates = EmptyBag /\ called = << >> )
  => /\ data.group = Group(groupId)
     /\ Parses(storage.data)
     /\ JSONParse(storage.data).group = Group(groupId)

(***************************************************************************)
(* C29.  A snapshot adopted from the cache on activation holds data that   *)
(* was read from the remote source less than 5 minutes earlier: no         *)
(* snapshot of a group is adopted when the last fetch that returned one    *)
(* did so 5 minutes ago or more, whatever updateTask wrote to the cache    *)
(* since.                                                                  *)
(***************************************************************************)
C29_AdoptedDataIsRecent ==
  [][ ( /\ Activates
        /\ fetched > 0
        /\ loadFromCache(storage, now) # NullData
        /\ loadFromCache(storage, now).group # NullGroup
        /\ data' = loadFromCache(storage, now) )
      => now - fetchedAt < REFRESH_INTERVAL ]_vars

(***************************************************************************)
(* C30.  In every reachable state the in-memory snapshot is referentially  *)
(* closed: every user among a task's assignees is one of the snapshot's    *)
(* users and its id occurs in that task's assigned_task_ids, and every     *)
(* image creator that is not null is one of the snapshot's users.          *)
(***************************************************************************)
C30_SnapshotReferences ==
  /\ \A t \in Range(data.tasks) :
       \A a \in Range(t.assignees) :
         /\ a \in Range(data.users)
         /\ a.id \in Range(t.assigned_task_ids)
  /\ \A im \in Range(data.images) :
       im.creator # NullUser => im.creator \in Range(data.users)

\* a snapshot that was adopted from the cache, then fetched again, then
\* updated: a completed task with two assignees out of three ids, a task
\* with none, an image with its creator
C30_Witness ==
  /\ mounted /\ fetched > 0 /\ toast = "success"
  /\ storage.data # Stringify(EarlierData)
  /\ \E t \in Range(data.tasks) :
       t.completed /\ Len(t.assignees) = 2 /\ Len(t.assigned_task_ids) = 3
  /\ \E t \in Range(data.tasks) : t.assignees = << >>
  /\ \E im \in Range(data.images) : im.creator # NullUser

(***************************************************************************)
(* C31.  A failed fetch leaves both cache slots as they were: neither its  *)
(* call, nor a read of it that answers, nor the step in which it fails     *)
(* writes the snapshot slot or the timestamp slot or removes either.       *)
(***************************************************************************)
C31_FailedFetchLeavesCache ==
  [][ /\ \A g \in GroupIds :
           Enters(Fetch(g, "group", << >>), fetches, fetches')
             => storage' = storage /\ lastSave' = lastSave
      /\ \A f \in BagToSet(fetches) :
           (Leaves(f, fetches, fetches') /\ fetched' = fetched)
             => storage' = storage /\ lastSave' = lastSave ]_vars

\* the only fetch issued has failed, over the entry of an earlier session,
\* which is still there
C31_Witness ==
  /\ mounted /\ groupId # NoGroup
  /\ issued = 1 /\ fetched = 0 /\ fetches = EmptyBag
  /\ error \in ErrorMessages /\ loading = FALSE
  /\ called = << >>
  /\ storage = saveToCache(EarlierData, 0)
  /\ lastSave = NeverSaved

(***************************************************************************)
(* C32.  With a remote source that answers every read, every fetch         *)
(* finishes and loading goes off: while the hook is mounted loading = true *)
(* leads to loading = false, and once no further fetch is issued nothing   *)
(* stays in flight and loading stays false.                                *)
(***************************************************************************)
C32_LoadingEnds ==
  /\ (mounted /\ loading) ~> (~mounted \/ ~loading)
  /\ <>[](fetches = EmptyBag /\ (mounted => ~loading))

\* every fetch the hook could issue has finished, one with a snapshot and
\* one with an error, and loading is off
C32_Witness ==
  /\ mounted /\ groupId # NoGroup
  /\ issued = MaxFetches /\ fetched = 1 /\ asked = 1
  /\ fetches = EmptyBag
  /\ error \in ErrorMessages
  /\ loading = FALSE

(***************************************************************************)
(* C33.  In StudyMode, when the running countdown has reached 0 the        *)
(* session type flips (work to break, break to work), timeLeft becomes the *)
(* full duration of the new session (3600 s for work, 300 s for break) and *)
(* the timer stops; in every reachable state timeLeft lies between 0 and   *)
(* the duration of the current session.                                    *)
(***************************************************************************)
C33_SessionFlipsAtZero ==
  /\ [](0 <= timeLeft /\ timeLeft <= (IF isWorkSession THEN 3600 ELSE 300))
  /\ [](timeLeft = 0 => isRunning)
  /\ [][ timeLeft = 0 =>
           /\ isWorkSession' = ~isWorkSession
           /\ timeLeft' = (IF isWorkSession' THEN 3600 ELSE 300)
           /\ isRunning' = FALSE ]_vars

\* a work session and a break session have both run down: work again, full
\* time, stopped
C33_Witness ==
  /\ sounds = 2
  /\ isWorkSession /\ timeLeft = 3600 /\ ~isRunning

====
